---- MODULE Spec2Model ----
(***************************************************************************)
(* Live build-progress notifier: tg_notify.py (one process launch per      *)
(* phase: start, update, end) and tg_timer_service.py (a process with a    *)
(* main thread and a daemon timer_worker thread).  Both talk to the chat   *)
(* API (sendMessage, editMessageText, deleteMessage, sendDocument) and     *)
(* keep the handle of the live message in a small text file.               *)
(***************************************************************************)
EXTENDS Integers, Sequences, FiniteSets, TLC

VARIABLES
    script,     \* which program the workflow runs: "tg_notify" or "tg_timer_service"
    ident,      \* <<ROM_TYPE, KERNEL_BRANCH>> of the build, each a sequence of characters
                \* (in SpecPair: the identities of the two builds)
    env,        \* environment of the current / last launched process
    chat,       \* remote chat: the messages that exist (sent and not deleted), id -> kind
    nextId,     \* the message_id the chat service gives to the next message
    files,      \* /tmp file system: path -> file
    calls,      \* calls of the channel functions made by the current / last invocation
    phase,      \* the invocation the calls belong to
    ended,      \* the end phase has run for this build
    upl,        \* tg_notify upload_file_with_progress position and locals
    proc,       \* tg_timer_service: process, globals and main thread position
    wk          \* tg_timer_service: timer_worker thread position and its calls

vars == <<script, ident, env, chat, nextId, files, calls, phase, ended, upl, proc, wk>>

----------------------------------------------------------------------------
(* Bounds of the model *)

\* the chat service hands out message ids FirstId .. FirstId + MaxMsgs - 1
MaxMsgs == 3

\* first message id of the chat in this run (9 -> 10 crosses a digit boundary)
FirstId == 9

\* length of the records the store file is initialised with in SpecStore
MaxRecordLen == 3

----------------------------------------------------------------------------
(* Python values *)

None == <<>>
Some(n) == <<n>>

\* truth value of `if message_id:` for None or an int
Truthy(x) == x # None /\ x[1] # 0

Digits == <<"0", "1", "2", "3", "4", "5", "6", "7", "8", "9">>

IsDigit(c) == \E i \in 1..10 : Digits[i] = c

DigitVal(c) == (CHOOSE i \in 1..10 : Digits[i] = c) - 1

IsSpace(c) == c \in {" ", "\n"}

RECURSIVE StrNat(_)
StrNat(n) == IF n < 10 THEN <<Digits[n + 1]>>
             ELSE StrNat(n \div 10) \o <<Digits[(n % 10) + 1]>>

\* str(message_id) of an int
Str(n) == IF n < 0 THEN <<"-">> \o StrNat(-n) ELSE StrNat(n)

RECURSIVE LStrip(_)
LStrip(s) == IF s # <<>> /\ IsSpace(Head(s)) THEN LStrip(Tail(s)) ELSE s

RECURSIVE RStrip(_)
RStrip(s) == IF s # <<>> /\ IsSpace(s[Len(s)]) THEN RStrip(SubSeq(s, 1, Len(s) - 1)) ELSE s

\* str.strip()
Strip(s) == RStrip(LStrip(s))

RECURSIVE DigitsVal(_, _)
DigitsVal(s, acc) == IF s = <<>> THEN acc
                     ELSE DigitsVal(Tail(s), acc * 10 + DigitVal(Head(s)))

AllDigits(s) == s # <<>> /\ \A i \in 1..Len(s) : IsDigit(s[i])

\* int(text): Some(n), or None for ValueError.  int() itself skips surrounding
\* whitespace and accepts one sign.
ParseInt(s) ==
    LET t == Strip(s)
        signed == t # <<>> /\ Head(t) \in {"+", "-"}
        body == IF signed THEN Tail(t) ELSE t
    IN  IF AllDigits(body)
        THEN Some(IF signed /\ Head(t) = "-" THEN -DigitsVal(body, 0) ELSE DigitsVal(body, 0))
        ELSE None

----------------------------------------------------------------------------
(* Handle store: one text file holding the decimal message id *)

\* directories that exist on the build machine
Dirs == {<<"/", "tmp">>}

RECURSIVE LastSlash(_, _)
LastSlash(path, i) == IF i = 0 \/ path[i] = "/" THEN i ELSE LastSlash(path, i - 1)

\* the directory a path names a file in: the path up to its last "/"
DirName(path) == SubSeq(path, 1, LastSlash(path, Len(path)) - 1)

\* tg_notify: f"/tmp/live_message_{ROM_TYPE}_{KERNEL_BRANCH}.txt"
LIVE_MESSAGE_ID_FILE(id) ==
    <<"/", "tmp", "/", "live_message_">> \o id[1] \o <<"_">> \o id[2] \o <<".txt">>

\* tg_timer_service: "/tmp/telegram_msg_id.txt"
TIMER_MESSAGE_ID_FILE == <<"/", "tmp", "/", "telegram_msg_id.txt">>

\* open(path, 'w') followed by f.write(text): the error raised, or "ok"
OpenWrite(fs, path) ==
    IF DirName(path) \notin Dirs THEN "FileNotFoundError"
    ELSE IF path \in DOMAIN fs /\ ~fs[path].perm THEN "PermissionError"
    ELSE "ok"

\* open(path, 'r'): the error raised, or "ok"
OpenRead(fs, path) ==
    IF DirName(path) \notin Dirs \/ path \notin DOMAIN fs THEN "FileNotFoundError"
    ELSE IF ~fs[path].perm THEN "PermissionError"
    ELSE "ok"

WriteFile(fs, path, text) ==
    [p \in DOMAIN fs \cup {path} |-> IF p = path THEN [perm |-> TRUE, data |-> text] ELSE fs[p]]

\* save_message_id: every exception is swallowed, the file system is then unchanged
save_message_id(fs, path, message_id) ==
    IF OpenWrite(fs, path) = "ok" THEN WriteFile(fs, path, Str(message_id)) ELSE fs

n_save_message_id(fs, id, message_id) == save_message_id(fs, LIVE_MESSAGE_ID_FILE(id), message_id)

t_save_message_id(fs, msg_id) == save_message_id(fs, TIMER_MESSAGE_ID_FILE, msg_id)

\* tg_notify load_message_id: except (FileNotFoundError, ValueError, Exception) -> None
n_load_message_id(fs, id) ==
    LET path == LIVE_MESSAGE_ID_FILE(id)
    IN  IF OpenRead(fs, path) = "ok" THEN ParseInt(fs[path].data) ELSE None

\* tg_timer_service load_message_id: except (FileNotFoundError, ValueError) -> None,
\* any other error is raised to the caller
t_load_message_id(fs) ==
    LET path == TIMER_MESSAGE_ID_FILE
        o == OpenRead(fs, path)
    IN  IF o = "ok" THEN [raised |-> FALSE, val |-> ParseInt(fs[path].data)]
        ELSE IF o = "FileNotFoundError" THEN [raised |-> FALSE, val |-> None]
        ELSE [raised |-> TRUE, val |-> None]

----------------------------------------------------------------------------
(* Chat API: what the remote service may answer, and what a request does *)

\* a request is answered 200 ("ok"), is rejected with "can't parse entities" ("parse"),
\* or fails otherwise ("fail": another non-200 answer, or an exception of requests.post,
\* which every channel function catches and turns into the return value of a non-200)
CanAllocate(nid) == nid < FirstId + MaxMsgs

SendOutcomes(nid, pm) ==
    (IF CanAllocate(nid) THEN {"ok"} ELSE {}) \cup (IF pm THEN {"parse"} ELSE {}) \cup {"fail"}

EditOutcomes(ch, id, pm) ==
    (IF id \in DOMAIN ch THEN {"ok"} ELSE {}) \cup (IF pm THEN {"parse"} ELSE {}) \cup {"fail"}

\* the retry of tg_notify send_message is answered only when the first answer was "parse"
RetryOutcomes(nid, r1) == IF r1 = "parse" THEN SendOutcomes(nid, FALSE) ELSE {"fail"}

DeleteOutcomes(ch, id) == (IF id \in DOMAIN ch THEN {"ok"} ELSE {}) \cup {"fail"}

\* the chat after a sendMessage answered 200
Posted(ch, nid, kind) == [i \in DOMAIN ch \cup {nid} |-> IF i = nid THEN kind ELSE ch[i]]

\* the chat after a deleteMessage answered 200
Removed(ch, id) == [i \in DOMAIN ch \ {id} |-> ch[i]]

Req(m, pm, id, r) == [m |-> m, pm |-> pm, id |-> id, r |-> r]

\* what a channel function did: the requests it issued and what it returned
Call(f, kind, arg, reqs, ok, id, ch, nid) ==
    [f |-> f, kind |-> kind, arg |-> arg, reqs |-> reqs, ok |-> ok, id |-> id,
     chat |-> ch, nextId |-> nid]

\* the part of a call that is kept in the log
Logged(c) == [f |-> c.f, kind |-> c.kind, arg |-> c.arg, reqs |-> c.reqs, ok |-> c.ok, id |-> c.id]

\* tg_notify send_message: r1 answers the first request, r2 the retry
n_send_message(creds, kind, ch, nid, r1, r2) ==
    IF ~creds THEN Call("send_message", kind, 0, <<>>, FALSE, 0, ch, nid)
    ELSE LET q1 == Req("sendMessage", TRUE, 0, r1)
             q2 == Req("sendMessage", FALSE, 0, r2)
         IN  IF r1 = "ok"
             THEN Call("send_message", kind, 0, <<q1>>, TRUE, nid, Posted(ch, nid, kind), nid + 1)
             ELSE IF r1 = "parse"
             THEN IF r2 = "ok"
                  THEN Call("send_message", kind, 0, <<q1, q2>>, TRUE, nid,
                            Posted(ch, nid, kind), nid + 1)
                  ELSE Call("send_message", kind, 0, <<q1, q2>>, FALSE, 0, ch, nid)
             ELSE Call("send_message", kind, 0, <<q1>>, FALSE, 0, ch, nid)

\* tg_timer_service send_message: one request, None unless it is answered 200
t_send_message(creds, kind, ch, nid, r1) ==
    IF ~creds THEN Call("send_message", kind, 0, <<>>, FALSE, 0, ch, nid)
    ELSE LET q1 == Req("sendMessage", TRUE, 0, r1)
         IN  IF r1 = "ok"
             THEN Call("send_message", kind, 0, <<q1>>, TRUE, nid, Posted(ch, nid, kind), nid + 1)
             ELSE Call("send_message", kind, 0, <<q1>>, FALSE, 0, ch, nid)

\* edit_message (both files): one request, True iff it is answered 200
edit_message(creds, message_id, kind, ch, nid, r1) ==
    IF ~creds THEN Call("edit_message", kind, message_id, <<>>, FALSE, 0, ch, nid)
    ELSE Call("edit_message", kind, message_id,
              <<Req("editMessageText", TRUE, message_id, r1)>>, r1 = "ok", 0, ch, nid)

n_edit_message(creds, message_id, kind, ch, nid, r1) ==
    edit_message(creds, message_id, kind, ch, nid, r1)

t_edit_message(creds, msg_id, kind, ch, nid, r1) ==
    edit_message(creds, msg_id, kind, ch, nid, r1)

\* delete_message (both files): one request, its answer is ignored
delete_message(creds, message_id, ch, nid, r1) ==
    IF ~creds THEN Call("delete_message", "none", message_id, <<>>, FALSE, 0, ch, nid)
    ELSE Call("delete_message", "none", message_id,
              <<Req("deleteMessage", FALSE, message_id, r1)>>, r1 = "ok", 0,
              IF r1 = "ok" THEN Removed(ch, message_id) ELSE ch, nid)

n_delete_message(creds, message_id, ch, nid, r1) == delete_message(creds, message_id, ch, nid, r1)

t_delete_message(creds, msg_id, ch, nid, r1) == delete_message(creds, msg_id, ch, nid, r1)

----------------------------------------------------------------------------
(* tg_notify.py: main, one process launch per phase *)

Ret(c) == IF c.ok /\ c.f = "send_message" THEN Some(c.id) ELSE None

\* os.path.exists(ZIP_PATH) for the artifact paths of the model
Exists(zip) == zip = "exists"

UplIdle == [pc |-> "idle", invoked |-> FALSE, message_id |-> 0, progress |-> 0,
            failed |-> 0, ret |-> "none"]

Env(token, chat_id, action, status, zip) ==
    [TG_BOT_TOKEN |-> token, TG_CHAT_ID |-> chat_id, action |-> action,
     BUILD_STATUS |-> status, ZIP_PATH |-> zip]

\* a credential guard that forgets the chat id
CredsTokenOnly(e) == e.TG_BOT_TOKEN

\* the credential guard of main and of every channel function:
\* `not TELEGRAM_TOKEN or not TELEGRAM_CHAT_ID` is false
Creds(e) == e.TG_BOT_TOKEN /\ e.TG_CHAT_ID

\* main returned at its credential guard: nothing was called, nothing changed
Skipped(ch, nid, fs) == [chat |-> ch, nextId |-> nid, files |-> fs, calls |-> <<>>]

\* action == "start": send the live message, save its id when one came back
main_start(creds, ch, nid, fs, id, r1, r2) ==
    LET s == n_send_message(creds, "live", ch, nid, r1, r2)
        message_id == Ret(s)
    IN  IF ~creds THEN Skipped(ch, nid, fs)
        ELSE [chat |-> s.chat, nextId |-> s.nextId,
              files |-> IF Truthy(message_id) THEN n_save_message_id(fs, id, message_id[1])
                        ELSE fs,
              calls |-> <<Logged(s)>>]

\* an update that saves whatever send_message returned, None included
main_update_save_unchecked(creds, ch, nid, fs, id, re, r1, r2) ==
    LET message_id == n_load_message_id(fs, id)
        e == n_edit_message(creds, message_id[1], "live", ch, nid, re)
        edited == Truthy(message_id) /\ e.ok
        s == n_send_message(creds, "live", ch, nid, r1, r2)
        new_id == Ret(s)
        before == IF Truthy(message_id) THEN <<Logged(e)>> ELSE <<>>
        path == LIVE_MESSAGE_ID_FILE(id)
    IN  IF ~creds THEN Skipped(ch, nid, fs)
        ELSE IF edited
        THEN [chat |-> ch, nextId |-> nid, files |-> fs, calls |-> before]
        ELSE [chat |-> s.chat, nextId |-> s.nextId,
              files |-> IF Truthy(new_id) THEN n_save_message_id(fs, id, new_id[1])
                        ELSE IF OpenWrite(fs, path) = "ok"
                        THEN WriteFile(fs, path, <<"N", "o", "n", "e">>) ELSE fs,
              calls |-> before \o <<Logged(s)>>]

\* action == "update": edit the loaded message, else send a new one and save its id
main_update(creds, ch, nid, fs, id, re, r1, r2) ==
    LET message_id == n_load_message_id(fs, id)
        e == n_edit_message(creds, message_id[1], "live", ch, nid, re)
        edited == Truthy(message_id) /\ e.ok
        s == n_send_message(creds, "live", ch, nid, r1, r2)
        new_id == Ret(s)
        before == IF Truthy(message_id) THEN <<Logged(e)>> ELSE <<>>
    IN  IF ~creds THEN Skipped(ch, nid, fs)
        ELSE IF edited
        THEN [chat |-> ch, nextId |-> nid, files |-> fs, calls |-> before]
        ELSE [chat |-> s.chat, nextId |-> s.nextId,
              files |-> IF Truthy(new_id) THEN n_save_message_id(fs, id, new_id[1]) ELSE fs,
              calls |-> before \o <<Logged(s)>>]

\* the condition of main's upload: BUILD_STATUS == "success" and ZIP_PATH and exists
ShouldUpload(status, zip) == status = "success" /\ zip # "" /\ Exists(zip)

\* an upload that goes on to the progress passes whatever the status send returned
upload_begin_unchecked(creds, zip, ch, nid, u1, u2) ==
    IF ~Exists(zip)
    THEN [chat |-> ch, nextId |-> nid, calls |-> <<>>,
          upl |-> [UplIdle EXCEPT !.invoked = TRUE, !.ret = "False"]]
    ELSE LET s == n_send_message(creds, "status", ch, nid, u1, u2)
             message_id == Ret(s)
         IN  [chat |-> s.chat, nextId |-> s.nextId, calls |-> <<Logged(s)>>,
              upl |-> [UplIdle EXCEPT !.pc = "progress", !.invoked = TRUE,
                                      !.message_id = IF Truthy(message_id)
                                                     THEN message_id[1] ELSE 0]]

\* upload_file_with_progress up to its progress loop: the existence check and the
\* upload-status message (u1, u2 answer its send)
upload_begin(creds, zip, ch, nid, u1, u2) ==
    IF ~Exists(zip)
    THEN [chat |-> ch, nextId |-> nid, calls |-> <<>>,
          upl |-> [UplIdle EXCEPT !.invoked = TRUE, !.ret = "False"]]
    ELSE LET s == n_send_message(creds, "status", ch, nid, u1, u2)
             message_id == Ret(s)
         IN  [chat |-> s.chat, nextId |-> s.nextId, calls |-> <<Logged(s)>>,
              upl |-> IF Truthy(message_id)
                      THEN [UplIdle EXCEPT !.pc = "progress", !.invoked = TRUE,
                                           !.message_id = message_id[1]]
                      ELSE [UplIdle EXCEPT !.invoked = TRUE, !.ret = "False"]]

\* an end phase that sends the final message before it deletes the live one
main_end_send_first(creds, ch, nid, fs, id, rd, r1, r2) ==
    LET message_id == n_load_message_id(fs, id)
        s == n_send_message(creds, "final", ch, nid, r1, r2)
        d == n_delete_message(creds, message_id[1], s.chat, s.nextId, rd)
    IN  IF ~creds THEN Skipped(ch, nid, fs)
        ELSE IF Truthy(message_id)
        THEN [chat |-> d.chat, nextId |-> d.nextId, files |-> fs,
              calls |-> <<Logged(s), Logged(d)>>]
        ELSE [chat |-> s.chat, nextId |-> s.nextId, files |-> fs, calls |-> <<Logged(s)>>]

\* action == "end" up to its send: delete the loaded message, send the final message
main_end(creds, ch, nid, fs, id, rd, r1, r2) ==
    LET message_id == n_load_message_id(fs, id)
        d == n_delete_message(creds, message_id[1], ch, nid, rd)
        ch1 == IF Truthy(message_id) THEN d.chat ELSE ch
        before == IF Truthy(message_id) THEN <<Logged(d)>> ELSE <<>>
        s == n_send_message(creds, "final", ch1, nid, r1, r2)
    IN  IF ~creds THEN Skipped(ch, nid, fs)
        ELSE [chat |-> s.chat, nextId |-> s.nextId, files |-> fs,
              calls |-> before \o <<Logged(s)>>]

Statuses == {"success", "failure"}

ZipPaths == {"", "missing", "exists"}

\* the secrets of the workflow are configured until someone removes one of them:
\* a launch has both credentials only if every earlier launch had them
Configured == env.action = "none" \/ (env.TG_BOT_TOKEN /\ env.TG_CHAT_ID)

\* the environment of a launch of tg_notify.py
N_Launch(action, status, zip) ==
    /\ script = "tg_notify" /\ upl.pc = "idle"
    /\ \E token, chat_id \in BOOLEAN :
         /\ (token /\ chat_id) => Configured
         /\ env' = Env(token, chat_id, action, status, zip)
    /\ phase' = action

\* the answers that matter to a call that is made only with credentials
Answers(creds, S) == IF creds THEN S ELSE {"fail"}

N_Start ==
    /\ N_Launch("start", "in_progress", "")
    /\ \E r1 \in Answers(Creds(env'), SendOutcomes(nextId, TRUE)) :
       \E r2 \in RetryOutcomes(nextId, r1) :
         \E o \in {main_start(Creds(env'), chat, nextId, files, ident, r1, r2)} :
             /\ chat' = o.chat /\ nextId' = o.nextId /\ files' = o.files /\ calls' = o.calls
    /\ upl' = UplIdle
    /\ UNCHANGED <<script, ident, ended, proc, wk>>

N_Update ==
    /\ N_Launch("update", "in_progress", "")
    /\ \E message_id \in {n_load_message_id(files, ident)} :
       \E re \in Answers(Creds(env') /\ Truthy(message_id),
                         EditOutcomes(chat, message_id[1], TRUE)) :
       \E r1 \in Answers(Creds(env') /\ re # "ok", SendOutcomes(nextId, TRUE)) :
       \E r2 \in RetryOutcomes(nextId, r1) :
         \E o \in {main_update(Creds(env'), chat, nextId, files, ident, re, r1, r2)} :
             /\ chat' = o.chat /\ nextId' = o.nextId /\ files' = o.files /\ calls' = o.calls
    /\ upl' = UplIdle
    /\ UNCHANGED <<script, ident, ended, proc, wk>>

N_End ==
    /\ \E status \in Statuses, zip \in ZipPaths : N_Launch("end", status, zip)
    /\ \E message_id \in {n_load_message_id(files, ident)} :
       \E rd \in Answers(Creds(env') /\ Truthy(message_id),
                         DeleteOutcomes(chat, message_id[1])) :
       \E r1 \in Answers(Creds(env'), SendOutcomes(nextId, TRUE)) :
       \E r2 \in RetryOutcomes(nextId, r1) :
         \E o \in {main_end(Creds(env'), chat, nextId, files, ident, rd, r1, r2)} :
             /\ files' = o.files
             /\ IF Creds(env') /\ ShouldUpload(env'.BUILD_STATUS, env'.ZIP_PATH)
                THEN \E u1 \in SendOutcomes(o.nextId, TRUE) :
                     \E u2 \in RetryOutcomes(o.nextId, u1) :
                       \E u \in {upload_begin(Creds(env'), env'.ZIP_PATH, o.chat, o.nextId,
                                              u1, u2)} :
                           /\ chat' = u.chat /\ nextId' = u.nextId
                           /\ calls' = o.calls \o u.calls /\ upl' = u.upl
                ELSE /\ chat' = o.chat /\ nextId' = o.nextId
                     /\ calls' = o.calls /\ upl' = UplIdle
    /\ ended' = (ended \/ Creds(env'))
    /\ UNCHANGED <<script, ident, proc, wk>>

\* upload_file_with_progress: one pass of `for progress in range(0, 101, 10)`
N_UploadProgress ==
    /\ script = "tg_notify" /\ upl.pc = "progress"
    /\ \E re \in EditOutcomes(chat, upl.message_id, TRUE) :
         LET e == n_edit_message(Creds(env), upl.message_id, "status", chat, nextId, re)
         IN  upl' = [upl EXCEPT !.progress = @ + 10,
                                !.failed = IF e.ok THEN @ ELSE @ + 1,
                                !.pc = IF upl.progress + 10 < 101 THEN "progress" ELSE "transfer"]
    /\ UNCHANGED <<script, ident, env, chat, nextId, files, calls, phase, ended, proc, wk>>

DocOutcomes(nid) == (IF CanAllocate(nid) THEN {"ok"} ELSE {}) \cup {"fail"}

\* upload_file_with_progress after the loop: the sendDocument request (rt answers it),
\* then the definitive edit of the status message and, on 200 only, its delete
upload_transfer(creds, message_id, ch, nid, rt, re, rd) ==
    LET doc == Call("sendDocument", "document", 0, <<Req("sendDocument", FALSE, 0, rt)>>,
                    rt = "ok", IF rt = "ok" THEN nid ELSE 0,
                    IF rt = "ok" THEN Posted(ch, nid, "document") ELSE ch,
                    IF rt = "ok" THEN nid + 1 ELSE nid)
        e == n_edit_message(creds, message_id, IF rt = "ok" THEN "uploaded" ELSE "failed",
                            doc.chat, doc.nextId, re)
        d == n_delete_message(creds, message_id, doc.chat, doc.nextId, rd)
    IN  IF rt = "ok"
        THEN [chat |-> d.chat, nextId |-> d.nextId, ret |-> "True",
              calls |-> <<Logged(doc), Logged(e), Logged(d)>>]
        ELSE [chat |-> doc.chat, nextId |-> doc.nextId, ret |-> "False",
              calls |-> <<Logged(doc), Logged(e)>>]

N_UploadTransfer ==
    /\ script = "tg_notify" /\ upl.pc = "transfer"
    /\ \E rt \in DocOutcomes(nextId), re \in EditOutcomes(chat, upl.message_id, TRUE),
          rd \in DeleteOutcomes(chat, upl.message_id) :
         \E o \in {upload_transfer(Creds(env), upl.message_id, chat, nextId, rt, re, rd)} :
             /\ chat' = o.chat /\ nextId' = o.nextId
             /\ calls' = calls \o o.calls
             /\ upl' = [upl EXCEPT !.pc = "idle", !.ret = o.ret]
    /\ UNCHANGED <<script, ident, env, files, phase, ended, proc, wk>>

----------------------------------------------------------------------------
(* tg_timer_service.py: a process, its globals, its main thread *)

\* stop_requested is not a variable of the program: it records that stop_timer was
\* called while the worker thread started last was alive
ProcNone == [state |-> "none", pc |-> "none", cont |-> "none", timer_running |-> FALSE,
             message_id |-> None, msg_id |-> None, current_stage |-> "Initializing",
             progress_percent |-> "0", raised |-> FALSE, stop_requested |-> FALSE]

WkNone == [pc |-> "none", calls |-> <<>>]

\* timer_thread and timer_thread.is_alive()
ThreadAlive == wk.pc \notin {"none", "done", "raised", "killed"}

Commands == {"start", "update", "end", "interactive", "import"}

\* python tg_timer_service.py <command>, or import of the module by a build script:
\* a new process whose globals have their initial values
T_Launch ==
    /\ script = "tg_timer_service" /\ proc.state # "running"
    /\ \E cmd \in Commands, token, chat_id \in BOOLEAN :
         /\ (token /\ chat_id) => Configured
         /\ proc' = [ProcNone EXCEPT !.state = "running",
                                     !.pc = IF cmd = "import" THEN "idle"
                                            ELSE IF cmd = "interactive" THEN "start" ELSE cmd,
                                     !.cont = IF cmd = "import" THEN "idle"
                                              ELSE IF cmd = "interactive" THEN "wait"
                                              ELSE "return"]
         /\ env' = Env(token, chat_id, cmd, "in_progress", "")
    /\ wk' = WkNone
    /\ calls' = <<>>
    /\ phase' = "none"
    /\ UNCHANGED <<script, ident, chat, nextId, files, ended, upl>>

\* start_timer: a new daemon thread unless one is alive
T_start_timer ==
    /\ script = "tg_timer_service" /\ proc.state = "running"
    /\ proc.pc \in {"start", "idle"}
    /\ wk' = IF ThreadAlive THEN wk ELSE [pc |-> "begin", calls |-> <<>>]
    /\ proc' = [proc EXCEPT !.pc = proc.cont,
                            !.stop_requested = ThreadAlive /\ proc.stop_requested]
    /\ UNCHANGED <<script, ident, env, chat, nextId, files, calls, phase, ended, upl>>

\* stop_timer, called by the importing script or on KeyboardInterrupt in main
T_stop_timer ==
    /\ script = "tg_timer_service" /\ proc.state = "running"
    /\ proc.pc \in {"wait", "idle"}
    /\ proc' = [proc EXCEPT !.timer_running = FALSE,
                            !.stop_requested = ThreadAlive,
                            !.pc = IF proc.pc = "wait" THEN "return" ELSE "idle"]
    /\ UNCHANGED <<script, ident, env, chat, nextId, files, calls, phase, ended, upl, wk>>

Stages == {"Compiling"}

Percents == {"50"}

\* update_stage; main calls it only when len(sys.argv) > 3
T_update_stage ==
    /\ script = "tg_timer_service" /\ proc.state = "running"
    /\ proc.pc \in {"update", "idle"}
    /\ \E with_args \in BOOLEAN, stage \in Stages, progress \in Percents :
         /\ proc.pc = "idle" => with_args
         /\ proc' = IF with_args
                    THEN [proc EXCEPT !.current_stage = stage, !.progress_percent = progress,
                                      !.pc = proc.cont]
                    ELSE [proc EXCEPT !.pc = proc.cont]
    /\ UNCHANGED <<script, ident, env, chat, nextId, files, calls, phase, ended, upl, wk>>

FinalStatuses == {"success", "failure"}

\* send_final_message(status, zip_path): stop_timer()
T_final_stop ==
    /\ script = "tg_timer_service" /\ proc.state = "running"
    /\ proc.pc \in {"end", "idle"}
    /\ \E status \in FinalStatuses, zip \in ZipPaths :
         /\ proc.pc = "end" => zip = ""
         /\ env' = [env EXCEPT !.BUILD_STATUS = status, !.ZIP_PATH = zip]
    /\ proc' = [proc EXCEPT !.timer_running = FALSE, !.stop_requested = ThreadAlive,
                            !.pc = "f_load", !.msg_id = None]
    /\ calls' = <<>>
    /\ phase' = "end"
    /\ UNCHANGED <<script, ident, chat, nextId, files, ended, upl, wk>>

\* send_final_message: msg_id = load_message_id(); an error it does not catch ends main
T_final_load ==
    /\ script = "tg_timer_service" /\ proc.state = "running"
    /\ proc.pc = "f_load"
    /\ LET l == t_load_message_id(files)
       IN  IF l.raised
           THEN /\ proc' = [proc EXCEPT !.state = "exited", !.pc = "raised", !.raised = TRUE]
                /\ wk' = IF ThreadAlive THEN [wk EXCEPT !.pc = "killed"] ELSE wk
           ELSE /\ proc' = [proc EXCEPT !.msg_id = l.val,
                                        !.pc = IF Truthy(l.val) THEN "f_delete" ELSE "f_send"]
                /\ wk' = wk
    /\ UNCHANGED <<script, ident, env, chat, nextId, files, calls, phase, ended, upl>>

\* send_final_message: delete_message(msg_id)
T_final_delete ==
    /\ script = "tg_timer_service" /\ proc.state = "running"
    /\ proc.pc = "f_delete"
    /\ \E rd \in DeleteOutcomes(chat, proc.msg_id[1]) :
         LET d == t_delete_message(Creds(env), proc.msg_id[1], chat, nextId, rd)
         IN  /\ chat' = d.chat
             /\ calls' = calls \o <<Logged(d)>>
    /\ proc' = [proc EXCEPT !.pc = "f_send"]
    /\ UNCHANGED <<script, ident, env, nextId, files, phase, ended, upl, wk>>

\* send_final_message: send_message(final_message), then return
T_final_send ==
    /\ script = "tg_timer_service" /\ proc.state = "running"
    /\ proc.pc = "f_send"
    /\ \E r1 \in SendOutcomes(nextId, TRUE) :
         LET s == t_send_message(Creds(env), "final", chat, nextId, r1)
         IN  /\ chat' = s.chat /\ nextId' = s.nextId
             /\ calls' = calls \o <<Logged(s)>>
    /\ proc' = [proc EXCEPT !.pc = proc.cont]
    /\ ended' = TRUE
    /\ UNCHANGED <<script, ident, env, files, phase, upl, wk>>

\* main returns (or the importing script ends): the process exits and its daemon
\* thread dies wherever it is
T_Exit ==
    /\ script = "tg_timer_service" /\ proc.state = "running"
    /\ proc.pc \in {"return", "idle"}
    /\ proc' = [proc EXCEPT !.state = "exited", !.pc = "none"]
    /\ wk' = IF ThreadAlive THEN [wk EXCEPT !.pc = "killed"] ELSE wk
    /\ UNCHANGED <<script, ident, env, chat, nextId, files, calls, phase, ended, upl>>

----------------------------------------------------------------------------
(* tg_timer_service.py: the timer_worker thread *)

WorkerAt(pc) == script = "tg_timer_service" /\ proc.state = "running" /\ wk.pc = pc

\* timer_worker: if message_id is None: message_id = load_message_id()
W_Begin ==
    /\ WorkerAt("begin")
    /\ LET l == t_load_message_id(files)
           loaded == IF proc.message_id = None THEN l.val ELSE proc.message_id
       IN  IF proc.message_id = None /\ l.raised
           THEN /\ wk' = [pc |-> "raised", calls |-> <<>>]
                /\ proc' = proc
           ELSE /\ proc' = [proc EXCEPT !.message_id = loaded]
                /\ wk' = [pc |-> IF loaded = None THEN "init_send" ELSE "run", calls |-> <<>>]
    /\ UNCHANGED <<script, ident, env, chat, nextId, files, calls, phase, ended, upl>>

\* timer_worker: message_id = send_message(message); return when it is falsy
W_InitSend ==
    /\ WorkerAt("init_send")
    /\ \E r1 \in SendOutcomes(nextId, TRUE) :
         LET s == t_send_message(Creds(env), "live", chat, nextId, r1)
         IN  /\ chat' = s.chat /\ nextId' = s.nextId
             /\ proc' = [proc EXCEPT !.message_id = Ret(s)]
             /\ wk' = [pc |-> IF Truthy(Ret(s)) THEN "init_save" ELSE "done",
                       calls |-> <<Logged(s)>>]
    /\ UNCHANGED <<script, ident, env, files, calls, phase, ended, upl>>

\* timer_worker: save_message_id(message_id) after the initial send
W_InitSave ==
    /\ WorkerAt("init_save")
    /\ files' = t_save_message_id(files, proc.message_id[1])
    /\ wk' = [wk EXCEPT !.pc = "run"]
    /\ UNCHANGED <<script, ident, env, chat, nextId, calls, phase, ended, upl, proc>>

\* timer_worker: timer_running = True
W_SetRunning ==
    /\ WorkerAt("run")
    /\ proc' = [proc EXCEPT !.timer_running = TRUE]
    /\ wk' = [wk EXCEPT !.pc = "check"]
    /\ UNCHANGED <<script, ident, env, chat, nextId, files, calls, phase, ended, upl>>

\* timer_worker: while timer_running (reached again after time.sleep(5))
W_Check ==
    /\ WorkerAt("check")
    /\ wk' = [wk EXCEPT !.pc = IF proc.timer_running THEN "edit" ELSE "done"]
    /\ UNCHANGED <<script, ident, env, chat, nextId, files, calls, phase, ended, upl, proc>>

\* timer_worker: success = edit_message(message_id, message)
W_Edit ==
    /\ WorkerAt("edit")
    /\ \E re \in EditOutcomes(chat, proc.message_id[1], TRUE) :
         LET e == t_edit_message(Creds(env), proc.message_id[1], "live", chat, nextId, re)
         IN  wk' = [pc |-> IF e.ok THEN "check" ELSE "resend", calls |-> <<Logged(e)>>]
    /\ UNCHANGED <<script, ident, env, chat, nextId, files, calls, phase, ended, upl, proc>>

\* timer_worker: message_id = send_message(message); break when it is falsy
W_Resend ==
    /\ WorkerAt("resend")
    /\ \E r1 \in SendOutcomes(nextId, TRUE) :
         LET s == t_send_message(Creds(env), "live", chat, nextId, r1)
         IN  /\ chat' = s.chat /\ nextId' = s.nextId
             /\ proc' = [proc EXCEPT !.message_id = Ret(s)]
             /\ wk' = [pc |-> IF Truthy(Ret(s)) THEN "resave" ELSE "done",
                       calls |-> wk.calls \o <<Logged(s)>>]
    /\ UNCHANGED <<script, ident, env, files, calls, phase, ended, upl>>

\* timer_worker: save_message_id(message_id) after the fallback send
W_Resave ==
    /\ WorkerAt("resave")
    /\ files' = t_save_message_id(files, proc.message_id[1])
    /\ wk' = [wk EXCEPT !.pc = "check"]
    /\ UNCHANGED <<script, ident, env, chat, nextId, calls, phase, ended, upl, proc>>

----------------------------------------------------------------------------
(* The build: one build identity, one of the two scripts *)

EmptyFn == [i \in {} |-> 0]

RomTypes == {<<"r">>}

Branches == {<<"m">>, <<"f", "/", "x">>}

Init ==
    /\ script \in {"tg_notify", "tg_timer_service"}
    /\ ident \in RomTypes \X Branches
    \* tg_timer_service reads ROM_TYPE and KERNEL_BRANCH only to build message text
    /\ script = "tg_timer_service" => ident = <<<<"r">>, <<"m">>>>
    /\ env = Env(FALSE, FALSE, "none", "in_progress", "")
    /\ chat = EmptyFn
    /\ nextId = FirstId
    /\ files = EmptyFn
    /\ calls = <<>>
    /\ phase = "none"
    /\ ended = FALSE
    /\ upl = UplIdle
    /\ proc = ProcNone
    /\ wk = WkNone

Next ==
    \/ N_Start \/ N_Update \/ N_End \/ N_UploadProgress \/ N_UploadTransfer
    \/ T_Launch \/ T_start_timer \/ T_stop_timer \/ T_update_stage
    \/ T_final_stop \/ T_final_load \/ T_final_delete \/ T_final_send \/ T_Exit
    \/ W_Begin \/ W_InitSend \/ W_InitSave \/ W_SetRunning \/ W_Check
    \/ W_Edit \/ W_Resend \/ W_Resave

Spec == Init /\ [][Next]_vars

----------------------------------------------------------------------------
(* The handle store alone: save_message_id and load_message_id of either script,
   applied to a store file in any condition *)

\* characters of the records the store file may hold before the script runs
StoreChars == {"0", "1", " ", "-", "x"}

RECURSIVE SeqsUpTo(_, _)
SeqsUpTo(S, n) ==
    IF n = 0 THEN {<<>>}
    ELSE LET shorter == SeqsUpTo(S, n - 1)
         IN  shorter \cup {Append(q, c) : q \in shorter, c \in S}

Records == SeqsUpTo(StoreChars, MaxRecordLen)

\* the message ids a send can have returned
Handles == FirstId .. (FirstId + MaxMsgs - 1)

\* the store file of the running script
StorePath == IF script = "tg_notify" THEN LIVE_MESSAGE_ID_FILE(ident) ELSE TIMER_MESSAGE_ID_FILE

StoreFiles(path) ==
    {EmptyFn} \cup
    (IF DirName(path) \in Dirs
     THEN {[p \in {path} |-> f] : f \in {[perm |-> FALSE, data |-> <<>>]} \cup
                                       {[perm |-> TRUE, data |-> d] : d \in Records}}
     ELSE {})

InitStore ==
    /\ script \in {"tg_notify", "tg_timer_service"}
    /\ ident \in RomTypes \X Branches
    /\ files \in StoreFiles(StorePath)
    /\ env = Env(FALSE, FALSE, "none", "in_progress", "")
    /\ chat = EmptyFn
    /\ nextId = FirstId
    /\ calls = <<>>
    /\ phase = "none"
    /\ ended = FALSE
    /\ upl = UplIdle
    /\ proc = ProcNone
    /\ wk = WkNone

\* save_message_id(h) of the running script
S_Save ==
    /\ calls = <<>>
    /\ \E h \in Handles :
         /\ files' = IF script = "tg_notify" THEN n_save_message_id(files, ident, h)
                     ELSE t_save_message_id(files, h)
         /\ calls' = <<[op |-> "save", raised |-> FALSE, val |-> Some(h)]>>
    /\ phase' = "save"
    /\ UNCHANGED <<script, ident, env, chat, nextId, ended, upl, proc, wk>>

\* load_message_id() of the running script
S_Load ==
    /\ phase # "load"
    /\ calls' = Append(calls,
                       IF script = "tg_notify"
                       THEN [op |-> "load", raised |-> FALSE, val |-> n_load_message_id(files, ident)]
                       ELSE [op |-> "load", raised |-> t_load_message_id(files).raised,
                             val |-> t_load_message_id(files).val])
    /\ phase' = "load"
    /\ UNCHANGED <<script, ident, env, chat, nextId, files, ended, upl, proc, wk>>

NextStore == S_Save \/ S_Load

SpecStore == InitStore /\ [][NextStore]_vars

----------------------------------------------------------------------------
(* The same build with a store key that is a plain file name *)

InitSafe == Init /\ \A i \in 1..Len(ident[2]) : ident[2][i] # "/"

SpecSafe == InitSafe /\ [][Next]_vars

----------------------------------------------------------------------------
(* Two builds of one workflow sharing /tmp: ident holds the identities of the
   two builds, and each saves and loads its own handle *)

PairRoms == {<<"a">>, <<"a", "_", "b">>}

PairBranches == {<<"c">>, <<"b", "_", "c">>}

\* the store file of the build with identity id
StoreKey(id) == IF script = "tg_notify" THEN LIVE_MESSAGE_ID_FILE(id) ELSE TIMER_MESSAGE_ID_FILE

\* load_message_id() run by the build with identity id
LoadOf(fs, id) == IF script = "tg_notify" THEN n_load_message_id(fs, id) ELSE t_load_message_id(fs).val

\* save_message_id(h) run by the build with identity id
SaveOf(fs, id, h) ==
    IF script = "tg_notify" THEN n_save_message_id(fs, id, h) ELSE t_save_message_id(fs, h)

InitPair ==
    /\ script \in {"tg_notify", "tg_timer_service"}
    /\ ident \in {p \in (PairRoms \X PairBranches) \X (PairRoms \X PairBranches) : p[1] # p[2]}
    /\ files = EmptyFn
    /\ env = Env(FALSE, FALSE, "none", "in_progress", "")
    /\ chat = EmptyFn
    /\ nextId = FirstId
    /\ calls = <<>>
    /\ phase = "none"
    /\ ended = FALSE
    /\ upl = UplIdle
    /\ proc = ProcNone
    /\ wk = WkNone

\* build b saves a handle; the record keeps what the other build's load returned
\* before and returns after
P_Save ==
    /\ Len(calls) < MaxMsgs
    /\ \E b \in 1..2, h \in Handles :
         /\ files' = SaveOf(files, ident[b], h)
         /\ calls' = Append(calls, [op |-> "save", build |-> b, val |-> Some(h),
                                    other_before |-> LoadOf(files, ident[3 - b]),
                                    other_after |-> LoadOf(files', ident[3 - b])])
    /\ phase' = "save"
    /\ UNCHANGED <<script, ident, env, chat, nextId, ended, upl, proc, wk>>

\* build b loads its handle
P_Load ==
    /\ Len(calls) < MaxMsgs
    /\ \E b \in 1..2 :
         calls' = Append(calls, [op |-> "load", build |-> b, val |-> LoadOf(files, ident[b]),
                                 other_before |-> None, other_after |-> None])
    /\ phase' = "load"
    /\ UNCHANGED <<script, ident, env, chat, nextId, files, ended, upl, proc, wk>>

NextPair == P_Save \/ P_Load

SpecPair == InitPair /\ [][NextPair]_vars

----------------------------------------------------------------------------
(* The same build on a runner whose /tmp may already hold the store file of another
   user, which the script can neither read nor write *)

Unreadable(path) == [p \in {path} |-> [perm |-> FALSE, data |-> <<>>]]

InitFaulty ==
    /\ script \in {"tg_notify", "tg_timer_service"}
    /\ ident = <<<<"r">>, <<"m">>>>
    /\ files \in {EmptyFn, Unreadable(StorePath)}
    /\ env = Env(FALSE, FALSE, "none", "in_progress", "")
    /\ chat = EmptyFn
    /\ nextId = FirstId
    /\ calls = <<>>
    /\ phase = "none"
    /\ ended = FALSE
    /\ upl = UplIdle
    /\ proc = ProcNone
    /\ wk = WkNone

SpecFaulty == InitFaulty /\ [][Next]_vars

----------------------------------------------------------------------------
(* Message text helpers: progress_bar of either script, get_elapsed_time of tg_notify *)

\* a Python int or str argument
PyInt(n) == [type |-> "int", int |-> n, str |-> <<>>]

PyStr(s) == [type |-> "str", int |-> 0, str |-> s]

\* float(x) of an int or of a numeric string without fraction
Float(x) == IF x.type = "int" THEN x.int ELSE ParseInt(x.str)[1]

\* f"{x}"
Format(x) == IF x.type = "int" THEN Str(x.int) ELSE x.str

\* int(a / b) for b > 0: true division, then truncation toward zero
IntOfQuotient(a, b) == IF a >= 0 THEN a \div b ELSE -((-a) \div b)

\* c * n: empty when n <= 0
Repeat(c, n) == [i \in 1..n |-> c]

progress_bar_quarters(percent) ==
    LET filled == IntOfQuotient(Float(percent), 4)
        empty == 20 - filled
    IN  <<"[">> \o Repeat("filled", filled) \o Repeat("empty", empty) \o <<"]", " ">>
        \o (IF script = "tg_notify" THEN <<"(">> \o Format(percent) \o <<"%", ")">>
            ELSE Format(percent) \o <<"%">>)

\* progress_bar(percent): "filled" stands for the filled segment, "empty" for the empty one
progress_bar(percent) ==
    LET filled == IntOfQuotient(Float(percent), 5)
        empty == 20 - filled
    IN  <<"[">> \o Repeat("filled", filled) \o Repeat("empty", empty) \o <<"]", " ">>
        \o (IF script = "tg_notify" THEN <<"(">> \o Format(percent) \o <<"%", ")">>
            ELSE Format(percent) \o <<"%">>)

get_elapsed_time_minutes_of_total(start_known, total_seconds) ==
    IF ~start_known
    THEN [hours |-> 0, minutes |-> 0, seconds |-> 0,
          text |-> <<"0", " ", "mins", " ", "0", " ", "secs">>]
    ELSE LET hours == total_seconds \div 3600
             minutes == total_seconds \div 60
             seconds == total_seconds % 60
         IN  [hours |-> hours, minutes |-> minutes, seconds |-> seconds,
              text |-> IF hours > 0
                       THEN Str(hours) \o <<" ", "hrs", " ">> \o Str(minutes)
                            \o <<" ", "mins", " ">> \o Str(seconds) \o <<" ", "secs">>
                       ELSE IF minutes > 0
                       THEN Str(minutes) \o <<" ", "mins", " ">> \o Str(seconds) \o <<" ", "secs">>
                       ELSE Str(seconds) \o <<" ", "secs">>]

\* tg_notify get_elapsed_time: start_known is whether get_workflow_start_time returned a
\* time, total_seconds is int((now - start_time).total_seconds())
get_elapsed_time(start_known, total_seconds) ==
    IF ~start_known
    THEN [hours |-> 0, minutes |-> 0, seconds |-> 0,
          text |-> <<"0", " ", "mins", " ", "0", " ", "secs">>]
    ELSE LET hours == total_seconds \div 3600
             minutes == (total_seconds % 3600) \div 60
             seconds == total_seconds % 60
         IN  [hours |-> hours, minutes |-> minutes, seconds |-> seconds,
              text |-> IF hours > 0
                       THEN Str(hours) \o <<" ", "hrs", " ">> \o Str(minutes)
                            \o <<" ", "mins", " ">> \o Str(seconds) \o <<" ", "secs">>
                       ELSE IF minutes > 0
                       THEN Str(minutes) \o <<" ", "mins", " ">> \o Str(seconds) \o <<" ", "secs">>
                       ELSE Str(seconds) \o <<" ", "secs">>]

\* percents given to progress_bar: 0..100 and PercentMargin values on either side
PercentMargin == 5

Percentages == (0 - PercentMargin) .. (100 + PercentMargin)

\* elapsed whole seconds given to get_elapsed_time: up to MaxElapsed, and ClockSkew
\* seconds before the start time
MaxElapsed == 3700

ClockSkew == 2

InitText ==
    /\ script \in {"tg_notify", "tg_timer_service"}
    /\ ident = <<<<"r">>, <<"m">>>>
    /\ files = EmptyFn
    /\ env = Env(FALSE, FALSE, "none", "in_progress", "")
    /\ chat = EmptyFn
    /\ nextId = FirstId
    /\ calls = <<>>
    /\ phase = "none"
    /\ ended = FALSE
    /\ upl = UplIdle
    /\ proc = ProcNone
    /\ wk = WkNone

\* one call of progress_bar with an int or with its decimal string
X_progress_bar ==
    /\ calls = <<>>
    /\ \E n \in Percentages : \E percent \in {PyInt(n), PyStr(Str(n))} :
         calls' = <<[f |-> "progress_bar", n |-> n, arg |-> percent, start_known |-> TRUE,
                     ret |-> [text |-> progress_bar(percent)]]>>
    /\ phase' = "progress_bar"
    /\ UNCHANGED <<script, ident, env, chat, nextId, files, ended, upl, proc, wk>>

\* one call of tg_notify get_elapsed_time
X_get_elapsed_time ==
    /\ script = "tg_notify" /\ calls = <<>>
    /\ \E start_known \in BOOLEAN, total_seconds \in (0 - ClockSkew) .. MaxElapsed :
         /\ ~start_known => total_seconds = 0
         /\ calls' = <<[f |-> "get_elapsed_time", n |-> total_seconds, arg |-> PyInt(total_seconds),
                        start_known |-> start_known,
                        ret |-> get_elapsed_time(start_known, total_seconds)]>>
    /\ phase' = "get_elapsed_time"
    /\ UNCHANGED <<script, ident, env, chat, nextId, files, ended, upl, proc, wk>>

NextText == X_progress_bar \/ X_get_elapsed_time

SpecText == InitText /\ [][NextText]_vars

----------------------------------------------------------------------------
(* tg_timer_service.py alone, with a worker thread that the interpreter keeps scheduling *)

InitTimer == Init /\ script = "tg_timer_service"

MainThread ==
    \/ T_Launch \/ T_start_timer \/ T_stop_timer \/ T_update_stage
    \/ T_final_stop \/ T_final_load \/ T_final_delete \/ T_final_send \/ T_Exit

\* the steps of timer_worker
Worker ==
    \/ W_Begin \/ W_InitSend \/ W_InitSave \/ W_SetRunning \/ W_Check
    \/ W_Edit \/ W_Resend \/ W_Resave

NextTimer == MainThread \/ Worker

\* the steps of send_final_message after its stop_timer()
FinalSteps == T_final_load \/ T_final_delete \/ T_final_send

\* a thread that can run is run: the worker goes on, and so does a send_final_message
\* that has begun; between calls the main thread may wait as long as it likes
SpecTimerFair == InitTimer /\ [][NextTimer]_vars /\ WF_vars(Worker) /\ WF_vars(FinalSteps)

----------------------------------------------------------------------------
(* Vocabulary of the properties *)

\* in-progress messages that exist in the chat
LiveMsgs == {i \in DOMAIN chat : chat[i] = "live"}

\* what load_message_id of the running script returns now
StoredHandle ==
    IF script = "tg_notify" THEN n_load_message_id(files, ident) ELSE t_load_message_id(files).val

HasCreds == env.TG_BOT_TOKEN /\ env.TG_CHAT_ID

\* every call logged by the main thread / process and by the worker thread
AllCalls == {calls[i] : i \in 1..Len(calls)} \cup {wk.calls[i] : i \in 1..Len(wk.calls)}

SendsIn(cs) == {i \in 1..Len(cs) : cs[i].f = "send_message"}

FinalSendsIn(cs) == {i \in 1..Len(cs) : cs[i].f = "send_message" /\ cs[i].kind = "final"}

\* a tg_notify invocation of the given phase has returned, with credentials
NotifyRan(p) == script = "tg_notify" /\ phase = p /\ HasCreds

\* tg_timer_service: send_final_message has returned
FinalReturned ==
    /\ script = "tg_timer_service" /\ phase = "end"
    /\ proc.pc \notin {"f_load", "f_delete", "f_send", "raised"}

\* the worker thread is between a send and the save of its handle
WorkerSaving == wk.pc \in {"init_save", "resave"}

----------------------------------------------------------------------------
(* C1 *)

\* C1: until the end phase, at most one live in-progress message exists in the chat,
\* and it is the one whose handle is in the store.
C1_OneLiveMessage ==
    (~ended /\ ~WorkerSaving) =>
        /\ Cardinality(LiveMsgs) <= 1
        /\ \A i \in LiveMsgs : StoredHandle = Some(i)

----------------------------------------------------------------------------
(* C2 *)

\* C2: an update of tg_notify that does not end with a successful edit attempts exactly
\* one send, and when that send succeeds the store holds the new handle on return.
C2_UpdateFallback ==
    (NotifyRan("update") /\ ~(calls # <<>> /\ calls[Len(calls)].f = "edit_message"
                                          /\ calls[Len(calls)].ok)) =>
        /\ Cardinality(SendsIn(calls)) = 1
        /\ \A i \in SendsIn(calls) : calls[i].ok => StoredHandle = Some(calls[i].id)

----------------------------------------------------------------------------
(* C3 *)

\* C3: after the end phase has run, a later update invocation sends nothing, edits
\* nothing and leaves the chat and the store as they are.
C3_UpdateAfterEndIsNoOp ==
    [][(script = "tg_notify" /\ ended /\ phase' = "update" /\ upl.pc = "idle") =>
          /\ \A i \in 1..Len(calls') : calls'[i].reqs = <<>>
          /\ chat' = chat /\ files' = files]_vars

----------------------------------------------------------------------------
(* C4 *)

\* C4: start attempts exactly one send; when it succeeds the store holds the returned
\* handle when start returns, and when it fails the store is as it was before start.
C4_StartSavesHandle ==
    [][(script = "tg_notify" /\ phase' = "start" /\ env'.TG_BOT_TOKEN /\ env'.TG_CHAT_ID
        /\ upl.pc = "idle") =>
          /\ Len(calls') = 1 /\ calls'[1].f = "send_message"
          /\ calls'[1].ok => n_load_message_id(files', ident) = Some(calls'[1].id)
          /\ ~calls'[1].ok => files' = files]_vars

----------------------------------------------------------------------------
(* C5 *)

\* the calls of an end phase that loaded handle h, up to and including its final send
EndCallsInOrder(cs, h) ==
    IF Truthy(h)
    THEN /\ Len(cs) >= 2
         /\ cs[1].f = "delete_message" /\ cs[1].arg = h[1]
         /\ HasCreds => Len(cs[1].reqs) = 1
         /\ FinalSendsIn(cs) = {2}
         /\ HasCreds => cs[2].reqs # <<>>
    ELSE /\ Len(cs) >= 1
         /\ FinalSendsIn(cs) = {1}
         /\ HasCreds => cs[1].reqs # <<>>

\* C5: in the end phase of either script the delete of the loaded handle, when one was
\* loaded, is issued before the terminal message is sent, and the terminal message is
\* sent exactly once, with or without a handle and whatever the delete answered.
C5_DeleteThenFinalOnce ==
    /\ NotifyRan("end") => EndCallsInOrder(calls, StoredHandle)
    /\ FinalReturned => EndCallsInOrder(calls, proc.msg_id)
    /\ (script = "tg_timer_service" /\ phase = "end" /\ proc.pc \in {"f_delete", "f_send"})
          => FinalSendsIn(calls) = {}

\* an end phase whose delete request failed and whose terminal message was sent
C5_Witness ==
    /\ NotifyRan("end")
    /\ Len(calls) >= 2
    /\ calls[1].f = "delete_message" /\ ~calls[1].ok
    /\ calls[2].kind = "final" /\ calls[2].ok

----------------------------------------------------------------------------
(* C6 *)

\* C6: the end phase of either script invokes the artifact upload if and only if the
\* final status is success and an artifact path is given and the file exists.
C6_UploadIffSuccessAndArtifact ==
    ((NotifyRan("end") \/ FinalReturned) /\ HasCreds) =>
        (upl.invoked <=> (env.BUILD_STATUS = "success" /\ env.ZIP_PATH # ""
                          /\ Exists(env.ZIP_PATH)))

----------------------------------------------------------------------------
(* C7 *)

\* C7: send_message issues a second request, without parse_mode, exactly when the first
\* answer is a markup rejection; it never issues more than two requests; it returns the
\* handle iff its last request is answered 200.
C7_SendRetriesOnceOnMarkupRejection ==
    \A c \in AllCalls :
        (c.f = "send_message" /\ c.reqs # <<>>) =>
            /\ Len(c.reqs) <= 2
            /\ (Len(c.reqs) = 2) <=> (c.reqs[1].r = "parse")
            /\ Len(c.reqs) = 2 => ~c.reqs[2].pm
            /\ c.ok <=> (c.reqs[Len(c.reqs)].r = "ok")

----------------------------------------------------------------------------
(* C8 *)

\* C8: edit_message retries exactly once, with markup disabled, when the edit is
\* rejected for its markup, and reports the retry's result; any other answer is
\* reported without a retry.
C8_EditRetriesOnceOnMarkupRejection ==
    \A c \in AllCalls :
        (c.f = "edit_message" /\ c.reqs # <<>>) =>
            /\ c.reqs[1].r = "parse" =>
                  /\ Len(c.reqs) = 2 /\ ~c.reqs[2].pm
                  /\ c.ok <=> (c.reqs[2].r = "ok")
            /\ c.reqs[1].r # "parse" =>
                  /\ Len(c.reqs) = 1
                  /\ c.ok <=> (c.reqs[1].r = "ok")

----------------------------------------------------------------------------
(* C9 *)

\* a process was launched without the bot token or without the chat id
NoCreds == env.action # "none" /\ ~HasCreds

NoCredsQuiet ==
    NoCreds =>
        /\ \A c \in AllCalls : c.reqs = <<>>
        /\ ~upl.invoked /\ upl.pc = "idle"
        /\ ~proc.raised /\ wk.pc # "raised"

\* C9: without the bot token or the chat id no phase of either script issues a request
\* to the chat API, none changes the chat or the handle store, and none raises.
C9_NoOpWithoutCredentials ==
    /\ []NoCredsQuiet
    /\ [][NoCreds' => (chat' = chat /\ nextId' = nextId /\ files' = files)]_vars

\* the timer worker ran its whole loop body without credentials, on a stored handle
C9_Witness ==
    /\ NoCreds /\ script = "tg_timer_service"
    /\ StoredHandle # None
    /\ wk.pc = "done" /\ Len(wk.calls) = 2
    /\ wk.calls[1].f = "edit_message" /\ wk.calls[2].f = "send_message"

----------------------------------------------------------------------------
(* C10 *)

\* the loads performed in SpecStore
LoadOps == {i \in 1..Len(calls) : calls[i].op = "load"}

\* the record is missing or unreadable, or holds no digit at all
NoHandleRecord ==
    \/ OpenRead(files, StorePath) # "ok"
    \/ \A i \in 1..Len(files[StorePath].data) : ~IsDigit(files[StorePath].data[i])

\* C10: in both scripts and for every build identity, a handle saved and then loaded is
\* the same handle, and load never raises and returns None for a record that is missing,
\* unreadable or holds no number.
C10_StoreRoundTrip ==
    \A i \in LoadOps :
        /\ ~calls[i].raised
        /\ NoHandleRecord => calls[i].val = None
        /\ (i = 2 /\ calls[1].op = "save") => calls[2].val = calls[1].val

----------------------------------------------------------------------------
(* C11 *)

\* C11: for two distinct build identities, in either script, the store keys differ and a
\* save by one build never changes what load returns for the other.
C11_IndependentStores ==
    \A i \in 1..Len(calls) :
        calls[i].op = "save" =>
            /\ StoreKey(ident[1]) # StoreKey(ident[2])
            /\ calls[i].other_after = calls[i].other_before

----------------------------------------------------------------------------
(* C12 *)

\* C12: no failure of a remote call and no failure of the handle store raises past the
\* controller: tg_notify.main, timer_worker and send_final_message always return normally.
C12_NeverRaises == ~proc.raised /\ wk.pc # "raised"

----------------------------------------------------------------------------
(* C13 *)

\* the segments of a rendered bar: what stands between "[" and "]"
Segments(text) == SelectSeq(text, LAMBDA c : c \in {"filled", "empty"})

\* the progress_bar calls made with a percent in 0..100
BarCalls == {i \in 1..Len(calls) : calls[i].f = "progress_bar" /\ calls[i].n \in 0..100}

\* C13: for every integer percent in 0..100, given as an int or as a numeric string,
\* progress_bar renders exactly 20 segments, the first floor(percent/5) of them filled and
\* the others empty: none filled for 0, all filled for 100, 9 filled and 11 empty for 47.
C13_ProgressBarSegments ==
    \A i \in BarCalls :
        LET seg == Segments(calls[i].ret.text)
            n == calls[i].n
        IN  /\ Len(seg) = 20
            /\ \A k \in 1..20 : seg[k] = (IF k <= n \div 5 THEN "filled" ELSE "empty")
            /\ n = 0 => \A k \in 1..20 : seg[k] = "empty"
            /\ n = 100 => \A k \in 1..20 : seg[k] = "filled"
            /\ n = 47 => /\ Len(SelectSeq(seg, LAMBDA c : c = "filled")) = 9
                         /\ Len(SelectSeq(seg, LAMBDA c : c = "empty")) = 11

\* progress_bar("47") of tg_timer_service has returned
C13_Witness ==
    /\ script = "tg_timer_service" /\ BarCalls # {}
    /\ calls[1].arg = PyStr(<<"4", "7">>)
    /\ Len(Segments(calls[1].ret.text)) = 20

----------------------------------------------------------------------------
(* C14 *)

\* the get_elapsed_time calls that had a start time and t >= 0 elapsed seconds
ElapsedCalls ==
    {i \in 1..Len(calls) : calls[i].f = "get_elapsed_time" /\ calls[i].start_known
                           /\ calls[i].n >= 0}

Parts(text) == {text[k] : k \in 1..Len(text)}

\* C14: for every whole number t >= 0 of elapsed seconds, get_elapsed_time splits t into
\* hours, minutes < 60 and seconds < 60 with hours*3600 + minutes*60 + seconds = t, and
\* renders them with no "hrs" part when hours is zero and no "mins" part when hours and
\* minutes are zero: "0 secs" for 0, "1 hrs 1 mins 1 secs" for 3661.
C14_ElapsedDecomposition ==
    \A i \in ElapsedCalls :
        LET r == calls[i].ret
            t == calls[i].n
        IN  /\ r.hours * 3600 + r.minutes * 60 + r.seconds = t
            /\ r.hours >= 0 /\ r.minutes \in 0..59 /\ r.seconds \in 0..59
            /\ r.hours = 0 => "hrs" \notin Parts(r.text)
            /\ (r.hours = 0 /\ r.minutes = 0) => "mins" \notin Parts(r.text)
            /\ r.hours > 0 => r.text = Str(r.hours) \o <<" ", "hrs", " ">> \o Str(r.minutes)
                                       \o <<" ", "mins", " ">> \o Str(r.seconds) \o <<" ", "secs">>
            /\ t = 0 => r.text = <<"0", " ", "secs">>
            /\ t = 3661 => r.text = <<"1", " ", "hrs", " ", "1", " ", "mins", " ", "1", " ", "secs">>

\* get_elapsed_time has rendered 3661 elapsed seconds
C14_Witness ==
    /\ ElapsedCalls # {}
    /\ calls[1].n = 3661
    /\ calls[1].ret.hours = 1 /\ "hrs" \in Parts(calls[1].ret.text)

----------------------------------------------------------------------------
(* C15 *)

\* tg_timer_service: send_final_message is past its delete step, or has returned
PastFinalDelete ==
    /\ script = "tg_timer_service" /\ phase = "end"
    /\ proc.pc \notin {"f_load", "f_delete", "raised"}

\* this step is the worker thread's edit_message, send_message or save_message_id
WorkerCallStep ==
    /\ wk.pc \in {"init_send", "init_save", "edit", "resend", "resave"}
    /\ wk'.pc \notin {wk.pc, "killed"}

\* C15: in tg_timer_service, once send_final_message has deleted the live message, the
\* timer_worker thread issues no edit and no send and saves no handle, under every
\* interleaving of the two threads.
C15_WorkerQuietAfterFinal == [][(PastFinalDelete /\ HasCreds) => ~WorkerCallStep]_vars

----------------------------------------------------------------------------
(* C16 *)

\* C16: in tg_timer_service, a stop_timer call made at any point after start_timer, also
\* before the worker has sent its initial message, makes the timer_worker loop terminate
\* eventually.
C16_StopTerminatesWorker == (proc.stop_requested /\ ThreadAlive) ~> ~ThreadAlive

----------------------------------------------------------------------------
(* C17 *)

\* the handle the worker thread's channel call is made for, when its control is in
\* edit_message (requests.post blocks up to 10 s; the thread holds no lock meanwhile)
WorkerCallFor ==
    IF script = "tg_timer_service" /\ proc.state = "running" /\ wk.pc = "edit" /\ HasCreds
    THEN proc.message_id ELSE None

\* the handle the main thread's channel call is made for, when its control is in the
\* delete_message of send_final_message
MainCallFor ==
    IF script = "tg_timer_service" /\ proc.state = "running" /\ proc.pc = "f_delete" /\ HasCreds
    THEN proc.msg_id ELSE None

\* a worker thread that is alive is never replaced by a second one
OneWorker == (ThreadAlive /\ wk'.pc = "begin") => wk.pc = "begin"

\* C17: in tg_timer_service, after any sequence of start_timer, stop_timer and
\* send_final_message calls, at most one timer worker runs at a time and no two chat API
\* calls for the same live handle are in progress at the same moment.
C17_OneWorkerOneCall ==
    /\ [](WorkerCallFor # None => MainCallFor # WorkerCallFor)
    /\ [][OneWorker]_vars

----------------------------------------------------------------------------
(* C18 *)

\* the timer_worker thread has left its while loop after at least one tick
WorkerLoopEnded ==
    /\ script = "tg_timer_service" /\ proc.state = "running"
    /\ wk.pc = "done" /\ wk.calls # <<>> /\ wk.calls[1].f = "edit_message"

\* C18: in timer_worker, no remote failure ends the updates while the timer has not been
\* stopped: after a tick whose edit failed and whose fallback send succeeded or failed, the
\* loop goes on to the next tick, so the loop is left only when timer_running is False.
C18_LoopSurvivesFailures == (WorkerLoopEnded /\ HasCreds) => ~proc.timer_running

----------------------------------------------------------------------------
(* C19 *)

\* a tg_timer_service process launched as "update <stage> <percent>" has exited
UpdateLaunchDone ==
    /\ script = "tg_timer_service" /\ proc.state = "exited" /\ ~proc.raised
    /\ env.action = "update" /\ proc.current_stage \in Stages

\* C19: in tg_timer_service, the update command given a stage and a percent, run as a
\* process launch of its own, refreshes the live message: it edits the stored handle or
\* sends a new message.
C19_UpdateCommandRefreshes ==
    (UpdateLaunchDone /\ HasCreds) =>
        \E c \in AllCalls : c.f \in {"edit_message", "send_message"} /\ c.reqs # <<>>

----------------------------------------------------------------------------
(* C20 *)

\* a tg_timer_service process launched as "start" has exited
StartLaunchDone ==
    /\ script = "tg_timer_service" /\ proc.state = "exited" /\ ~proc.raised
    /\ env.action = "start"

\* C20: in tg_timer_service, the start command run as a process launch creates the live
\* message: unless the remote send fails, the worker has sent it and saved its handle
\* before the process exits, however the main thread's return and the daemon worker
\* thread interleave.
C20_StartCommandCreatesMessage ==
    (StartLaunchDone /\ HasCreds /\ wk.pc = "killed") =>
        /\ proc.message_id # None
        /\ StoredHandle = proc.message_id

----------------------------------------------------------------------------
(* C21 *)

\* upload_file_with_progress has returned after it had sent its upload-status message
UploadReturned ==
    /\ script = "tg_notify" /\ upl.invoked /\ upl.pc = "idle" /\ upl.message_id # 0

TransfersIn(cs) == {i \in 1..Len(cs) : cs[i].f = "sendDocument"}

\* C21: in upload_file_with_progress, once the upload-status message was sent, the file
\* transfer is attempted exactly once, then the status message gets its definitive edit
\* ("uploaded" after a success response, "failed" otherwise), then the status message is
\* deleted, on the success path and on the failure path.
C21_TransferEditDelete ==
    UploadReturned =>
        LET n == Len(calls)
        IN  /\ n >= 3
            /\ TransfersIn(calls) = {n - 2}
            /\ calls[n - 1].f = "edit_message" /\ calls[n - 1].arg = upl.message_id
            /\ calls[n - 1].kind = (IF calls[n - 2].ok THEN "uploaded" ELSE "failed")
            /\ calls[n].f = "delete_message" /\ calls[n].arg = upl.message_id

----------------------------------------------------------------------------
(* C22 *)

\* the successful sends of a live message logged by the invocation
LiveSendsIn(cs) == {i \in SendsIn(cs) : cs[i].ok /\ cs[i].kind = "live"}

\* this step of tg_notify.main wrote the store
StoreWritten == script = "tg_notify" /\ files' # files

\* C22: after any sequence of start, update and end invocations of tg_notify.main, with any
\* remote successes and failures, a handle in the store is one that a successful send
\* returned: every write of the store puts there the handle its invocation's successful
\* send returned, so a failed send neither writes the store nor clears a stored handle.
C22_StoreHoldsSentHandle ==
    /\ [][StoreWritten =>
              \E i \in LiveSendsIn(calls') : StoredHandle' = Some(calls'[i].id)]_vars
    /\ []((script = "tg_notify" /\ StoredHandle # None) =>
              StoredHandle[1] \in FirstId .. (nextId - 1))

\* an update whose edit and fallback send both failed has left the stored handle in place
C22_Witness ==
    /\ NotifyRan("update") /\ StoredHandle # None
    /\ \E i \in SendsIn(calls) : ~calls[i].ok /\ calls[i].reqs # <<>>

----------------------------------------------------------------------------
(* C23 *)

\* the sends of the upload-status message logged by the invocation
StatusSendsIn(cs) == {i \in SendsIn(cs) : cs[i].kind = "status"}

\* the end invocation of tg_notify.main has called upload_file_with_progress
UploadCalled == script = "tg_notify" /\ phase = "end" /\ upl.invoked

\* C23: upload_file_with_progress attempts the file transfer (sendDocument) only if the
\* upload-status message was sent: when that send fails the function returns False with no
\* transfer, and when it succeeds the transfer is attempted by the time the function
\* returns, however many of the progress edits failed.
C23_TransferOnlyAfterStatusSent ==
    UploadCalled =>
        /\ \A i \in TransfersIn(calls) :
               \E j \in StatusSendsIn(calls) : j < i /\ calls[j].ok
        /\ \A j \in StatusSendsIn(calls) :
               IF calls[j].ok
               THEN upl.pc = "idle" => Cardinality(TransfersIn(calls)) = 1
               ELSE upl.pc = "idle" /\ upl.ret = "False" /\ TransfersIn(calls) = {}

\* an upload in which every progress edit failed has still attempted the transfer
C23_Witness ==
    /\ UploadCalled /\ upl.pc = "idle" /\ upl.failed = 11
    /\ \E j \in StatusSendsIn(calls) : calls[j].ok
    /\ TransfersIn(calls) # {}

====
